---- MODULE Spec2Model ----
(***************************************************************************)
(* Model of esp-wifi/examples/embassy_dhcp.rs: the `connection` task (the  *)
(* Connectivity Supervisor), the `task` task (the Network Client Loop),    *)
(* and `main`, which hands tasks to the single cooperative executor.       *)
(*                                                                         *)
(* The radio layer (esp_wifi::wifi), the network stack (embassy_net) and   *)
(* the stream transport (TcpSocket) are collaborators whose code is not    *)
(* part of the example; they are modelled from the interface contracts of  *)
(* the specification (section 6) as nondeterministic environments.         *)
(***************************************************************************)
EXTENDS Naturals, Sequences, FiniteSets

VARIABLES
    spawned,        \* tasks handed to the executor by main
    cpc,            \* connection: position in the task body
    is_started,     \* connection: local flag of line 125
    connect_result, \* connection: arm of the match at lines 151-154 last taken
    wifi_state,     \* radio layer: value get_wifi_state() returns
    radio_result,   \* radio layer: outcome of the awaited start()/connect(), once resolved
    event_fired,    \* radio layer: StaDisconnected delivered to the suspended waiter
    loss_pending,   \* association was lost and no connect attempt was issued since
    panic_site,     \* the unwrap that panicked, "none" while running
    log,            \* record of the radio-layer operations and events, in order
    transitions,    \* the successive values of ConnectionState
    tpc,            \* task: position in the task body
    config_present, \* network stack: stack.config() is Some
    ever_present,   \* network stack: a configuration was present at some time
    tlog            \* record of the client loop's operations, in order

supervisorVars == <<cpc, is_started, connect_result>>
radioVars == <<wifi_state, radio_result, event_fired, loss_pending>>
connVars == <<cpc, is_started, connect_result, wifi_state, radio_result,
              event_fired, loss_pending, log, transitions>>
taskVars == <<tpc, config_present, ever_present, tlog>>
vars == <<spawned, cpc, is_started, connect_result, wifi_state, radio_result,
          event_fired, loss_pending, panic_site, log, transitions,
          tpc, config_present, ever_present, tlog>>

(* Bounds of the model: lengths at which the records stop growing. *)
MaxLog == 22
MaxTrans == 12
MaxTLog == 14

Record(l, e) == IF Len(l) < MaxLog THEN Append(l, e) ELSE l
TRecord(l, e) == IF Len(l) < MaxTLog THEN Append(l, e) ELSE l

(* A panic never returns (the panic handler has type `-> !`), and the      *)
(* executor runs every task on the one thread: after a panic nothing runs. *)
Halted == panic_site # "none"

(***************************************************************************)
(* ConnectionState of the Supervisor, read off the task's position:        *)
(* NotStarted until start() has returned Ok, Associating while connect()   *)
(* is awaited and through the retry delay of a failed attempt, Associated  *)
(* from a successful connect() until the task has seen the association     *)
(* gone (status query or StaDisconnected), Started otherwise.              *)
(***************************************************************************)
ConnectionState ==
    IF ~is_started THEN "NotStarted"
    ELSE IF cpc = "connect" THEN "Associating"
    ELSE IF cpc = "wait_event" THEN "Associated"
    ELSE IF cpc \in {"delay", "loop"} /\ connect_result = "ok" THEN "Associated"
    ELSE IF cpc = "delay" /\ connect_result = "err" THEN "Associating"
    ELSE "Started"

Observe(t, s) ==
    IF s # t[Len(t)] /\ Len(t) < MaxTrans THEN Append(t, s) ELSE t

(***************************************************************************)
(* main: lines 112-119. Only `connection` is spawned; the spawns of        *)
(* net_task, task, pinger and scanner are commented out.                   *)
(***************************************************************************)
MainSpawns == {"connection"}

ExecutorRun ==
    /\ spawned = {}
    /\ spawned' = MainSpawns
    /\ UNCHANGED <<connVars, panic_site, taskVars>>

(***************************************************************************)
(* connection: lines 123-158.                                              *)
(***************************************************************************)
ConnRunning == "connection" \in spawned /\ ~Halted

(* lines 127-134: the status query; StaConnected suspends on the event.    *)
(* No await separates the query from the first poll of the event future.   *)
(* the task waits for StaDisconnected whatever state the query returns *)
StatusBranch_AlwaysWaits(s) == "wait_event"

StatusBranch(s) == IF s = "StaConnected" THEN "wait_event" ELSE "check_started"

GetWifiState ==
    /\ ConnRunning
    /\ cpc = "loop"
    /\ cpc' = StatusBranch(wifi_state)
    /\ event_fired' = FALSE
    /\ log' = IF cpc' = "wait_event" THEN Record(log, "wait") ELSE log
    /\ UNCHANGED <<spawned, is_started, connect_result, wifi_state, radio_result,
                   loss_pending, panic_site, taskVars>>
    /\ transitions' = Observe(transitions, ConnectionState')

(* line 131: WifiEvent::StaDisconnected.await completes *)
AwaitDisconnected ==
    /\ ConnRunning
    /\ cpc = "wait_event"
    /\ event_fired
    /\ cpc' = "check_started"
    /\ event_fired' = FALSE
    /\ UNCHANGED <<spawned, is_started, connect_result, wifi_state, radio_result,
                   loss_pending, panic_site, log, taskVars>>
    /\ transitions' = Observe(transitions, ConnectionState')

(* lines 135-137: if !is_started, device.start() is called and awaited *)
(* the flag is not consulted: start is issued on every pass *)
NeedsStart_Always(started) == TRUE

(* the start is skipped *)
NeedsStart_Never(started) == FALSE

NeedsStart(started) == ~started

CheckStarted ==
    /\ ConnRunning
    /\ cpc = "check_started"
    /\ IF NeedsStart(is_started)
       THEN /\ cpc' = "start"
            /\ log' = Record(log, "start")
       ELSE /\ cpc' = "set_configuration"
            /\ log' = log
    /\ radio_result' = "none"
    /\ UNCHANGED <<spawned, is_started, connect_result, wifi_state, event_fired,
                   loss_pending, panic_site, taskVars>>
    /\ transitions' = Observe(transitions, ConnectionState')

(* lines 137-139: start().await.unwrap(); is_started = true *)
(* the assignment of line 138 is missing *)
StartedFlag_NeverSet(r) == FALSE

StartedFlagAfter(r) == r = "ok"

(* an Err of start() is reported and the loop retried, not unwrapped *)
StartDone_Retries ==
    /\ ConnRunning
    /\ cpc = "start"
    /\ radio_result # "none"
    /\ is_started' = (radio_result = "ok")
    /\ cpc' = IF radio_result = "ok" THEN "set_configuration" ELSE "loop"
    /\ log' = Record(log, IF radio_result = "ok" THEN "start_ok" ELSE "start_err")
    /\ radio_result' = "none"
    /\ UNCHANGED <<spawned, connect_result, wifi_state, event_fired,
                   loss_pending, panic_site, taskVars>>
    /\ transitions' = Observe(transitions, ConnectionState')

StartDone ==
    /\ ConnRunning
    /\ cpc = "start"
    /\ radio_result # "none"
    /\ IF radio_result = "ok"
       THEN /\ is_started' = StartedFlagAfter(radio_result)
            /\ cpc' = "set_configuration"
            /\ panic_site' = panic_site
            /\ log' = Record(log, "start_ok")
       ELSE /\ is_started' = is_started
            /\ cpc' = "panicked"
            /\ panic_site' = "start"
            /\ log' = Record(log, "start_err")
    /\ radio_result' = "none"
    /\ UNCHANGED <<spawned, connect_result, wifi_state, event_fired,
                   loss_pending, taskVars>>
    /\ transitions' = Observe(transitions, ConnectionState')

(* lines 141-151: set_configuration(..).unwrap(), then device.connect() is *)
(* called. r is the Result set_configuration returns.                      *)
(* connect() is called without set_configuration on a pass that did not   *)
(* start the interface                                                     *)
SetConfiguration_OnlyAfterStart(r) ==
    /\ ConnRunning
    /\ cpc = "set_configuration"
    /\ r = "ok"
    /\ cpc' = "connect"
    /\ log' = IF Len(log) > 0 /\ log[Len(log)] = "start_ok"
              THEN Record(Record(log, "set_configuration"), "connect")
              ELSE Record(log, "connect")
    /\ loss_pending' = FALSE
    /\ radio_result' = "none"
    /\ UNCHANGED <<spawned, is_started, connect_result, wifi_state, event_fired,
                   panic_site, taskVars>>
    /\ transitions' = Observe(transitions, ConnectionState')

SetConfiguration(r) ==
    /\ ConnRunning
    /\ cpc = "set_configuration"
    /\ IF r = "ok"
       THEN /\ cpc' = "connect"
            /\ panic_site' = panic_site
            /\ log' = Record(Record(log, "set_configuration"), "connect")
            /\ loss_pending' = FALSE
       ELSE /\ cpc' = "panicked"
            /\ panic_site' = "set_configuration"
            /\ log' = Record(log, "set_configuration_err")
            /\ loss_pending' = loss_pending
    /\ radio_result' = "none"
    /\ UNCHANGED <<spawned, is_started, connect_result, wifi_state, event_fired,
                   taskVars>>
    /\ transitions' = Observe(transitions, ConnectionState')

(* lines 151-156: both arms of the match print and fall to the retry delay *)
(* the Result of connect() is unwrapped like that of start() *)
AfterConnect_Unwrap(r) == IF r = "ok" THEN "delay" ELSE "panicked"

AfterConnect(r) == "delay"

(* a failed connect clears the flag, so that the next pass starts again *)
ConnectDone_ResetsFlag ==
    /\ ConnRunning
    /\ cpc = "connect"
    /\ radio_result # "none"
    /\ connect_result' = radio_result
    /\ is_started' = (radio_result = "ok")
    /\ cpc' = "delay"
    /\ log' = Record(log, IF radio_result = "ok" THEN "connect_ok" ELSE "connect_err")
    /\ radio_result' = "none"
    /\ UNCHANGED <<spawned, wifi_state, event_fired, loss_pending,
                   panic_site, taskVars>>
    /\ transitions' = Observe(transitions, ConnectionState')

ConnectDone ==
    /\ ConnRunning
    /\ cpc = "connect"
    /\ radio_result # "none"
    /\ connect_result' = radio_result
    /\ cpc' = AfterConnect(radio_result)
    /\ log' = Record(log, IF radio_result = "ok" THEN "connect_ok" ELSE "connect_err")
    /\ radio_result' = "none"
    /\ UNCHANGED <<spawned, is_started, wifi_state, event_fired, loss_pending,
                   panic_site, taskVars>>
    /\ transitions' = Observe(transitions, ConnectionState')

(* line 156: Timer::after(1000 ms) elapses; back to the top of the loop *)
RetryDelay ==
    /\ ConnRunning
    /\ cpc = "delay"
    /\ cpc' = "loop"
    /\ log' = Record(log, "delay")
    /\ UNCHANGED <<spawned, is_started, connect_result, wifi_state, radio_result,
                   event_fired, loss_pending, panic_site, taskVars>>
    /\ transitions' = Observe(transitions, ConnectionState')

ConnectionStep ==
    \/ GetWifiState
    \/ AwaitDisconnected
    \/ CheckStarted
    \/ StartDone
    \/ \E r \in {"ok", "err"} : SetConfiguration(r)
    \/ ConnectDone
    \/ RetryDelay

(***************************************************************************)
(* Radio layer (specification, section 6).                                 *)
(***************************************************************************)
(* startInterface() / connect() resolve with Ok or Err *)
RadioResolve(r) ==
    /\ ~Halted
    /\ cpc \in {"start", "connect"}
    /\ radio_result = "none"
    /\ radio_result' = r
    /\ wifi_state' = IF cpc = "start"
                     THEN (IF r = "ok" THEN "StaStarted" ELSE wifi_state)
                     ELSE (IF r = "ok" THEN "StaConnected" ELSE "StaDisconnected")
    /\ UNCHANGED <<spawned, supervisorVars, event_fired, loss_pending, panic_site,
                   log, transitions, taskVars>>

(* association is lost: the state changes and a suspended waiter is woken *)
Disassociate ==
    /\ ~Halted
    /\ wifi_state = "StaConnected"
    /\ wifi_state' = "StaDisconnected"
    /\ event_fired' = (cpc = "wait_event")
    /\ loss_pending' = TRUE
    /\ log' = Record(log, "disconnected")
    /\ UNCHANGED <<spawned, supervisorVars, radio_result, panic_site, transitions,
                   taskVars>>

RadioStep ==
    \/ \E r \in {"ok", "err"} : RadioResolve(r)
    \/ Disassociate

(***************************************************************************)
(* task: lines 194-247.                                                    *)
(***************************************************************************)
TaskRunning == "task" \in spawned /\ ~Halted

(* lines 200-204: a present configuration breaks out of the readiness loop *)
(* to the first pacing delay; an absent one goes to the 500 ms poll delay. *)
(* the readiness loop breaks whatever stack.config() returns *)
PollBranch_NoWait(present) == "pace"

PollBranch(present) == IF present THEN "pace" ELSE "poll_delay"

(* the client loop, finding no configuration, clears the Supervisor's flag *)
(* to have the interface started again                                     *)
PollConfig_RestartsInterface ==
    /\ TaskRunning
    /\ tpc = "poll"
    /\ tpc' = PollBranch(config_present)
    /\ tlog' = IF tpc' = "pace" THEN TRecord(tlog, "got_config") ELSE tlog
    /\ is_started' = (is_started /\ config_present)
    /\ UNCHANGED <<spawned, cpc, connect_result, wifi_state, radio_result,
                   event_fired, loss_pending, log, transitions, panic_site,
                   config_present, ever_present>>

PollConfig ==
    /\ TaskRunning
    /\ tpc = "poll"
    /\ tpc' = PollBranch(config_present)
    /\ tlog' = IF tpc' = "pace" THEN TRecord(tlog, "got_config") ELSE tlog
    /\ UNCHANGED <<spawned, connVars, panic_site, config_present, ever_present>>

(* line 204: Timer::after(500 ms) elapses *)
PollDelay ==
    /\ TaskRunning
    /\ tpc = "poll_delay"
    /\ tpc' = "poll"
    /\ UNCHANGED <<spawned, connVars, panic_site, config_present, ever_present, tlog>>

(* line 208: Timer::after(1000 ms) at the top of the cycle elapses *)
Pace ==
    /\ TaskRunning
    /\ tpc = "pace"
    /\ tpc' = "open"
    /\ tlog' = TRecord(tlog, "pace")
    /\ UNCHANGED <<spawned, connVars, panic_site, config_present, ever_present>>

(* lines 210-216: TcpSocket::new, set_timeout, then connect() is called *)
OpenSocket ==
    /\ TaskRunning
    /\ tpc = "open"
    /\ tpc' = "connect"
    /\ tlog' = TRecord(TRecord(tlog, "open"), "set_timeout")
    /\ UNCHANGED <<spawned, connVars, panic_site, config_present, ever_present>>

(* lines 216-221: Err prints and `continue`s to line 208 *)
(* the `continue` of line 219 is missing *)
AfterSocketConnect_FallThrough(r) == "write"

(* a failed connect is retried on the socket at hand *)
AfterSocketConnect_RetrySameSocket(r) == IF r = "err" THEN "connect" ELSE "write"

AfterSocketConnect(r) == IF r = "err" THEN "pace" ELSE "write"

SocketConnect(r) ==
    /\ TaskRunning
    /\ tpc = "connect"
    /\ tpc' = AfterSocketConnect(r)
    /\ tlog' = TRecord(tlog, IF r = "ok" THEN "connect_ok" ELSE "connect_err")
    /\ UNCHANGED <<spawned, connVars, panic_site, config_present, ever_present>>

(* lines 225-231: write_all; Err prints and breaks to line 245 *)
(* the Result of write_all is not looked at *)
AfterWrite_IgnoresErr(r) == "read"

AfterWrite(r) == IF r = "err" THEN "end_delay" ELSE "read"

WriteAll(r) ==
    /\ TaskRunning
    /\ tpc = "write"
    /\ tpc' = AfterWrite(r)
    /\ tlog' = TRecord(tlog, IF r = "ok" THEN "write_ok" ELSE "write_err")
    /\ UNCHANGED <<spawned, connVars, panic_site, config_present, ever_present>>

(* lines 232-243: read. "eof" is Ok(0), "err" is Err(e), "text" is Ok(n)   *)
(* with n > 0 bytes that are UTF-8, "bad" is Ok(n) with bytes that are not *)
(* (from_utf8(..).unwrap() at line 243 panics).                            *)
ReadResults == {"eof", "text", "bad", "err"}

(* Ok(0) is handled like any other Ok(n) *)
AfterRead_EofContinues(r) ==
    IF r = "err" THEN "end_delay"
    ELSE IF r = "text" \/ r = "eof" THEN "write"
    ELSE "panicked"

AfterRead(r) ==
    IF r = "eof" \/ r = "err" THEN "end_delay"
    ELSE IF r = "text" THEN "write"
    ELSE "panicked"

Read(r) ==
    /\ TaskRunning
    /\ tpc = "read"
    /\ tpc' = AfterRead(r)
    /\ panic_site' = IF tpc' = "panicked" THEN "from_utf8" ELSE panic_site
    /\ tlog' = TRecord(tlog, "read_" \o r)
    /\ UNCHANGED <<spawned, connVars, config_present, ever_present>>

(* line 245: Timer::after(1000 ms) after the inner loop elapses *)
EndDelay ==
    /\ TaskRunning
    /\ tpc = "end_delay"
    /\ tpc' = "pace"
    /\ tlog' = TRecord(tlog, "pace_end")
    /\ UNCHANGED <<spawned, connVars, panic_site, config_present, ever_present>>

TaskStep ==
    \/ PollConfig
    \/ PollDelay
    \/ Pace
    \/ OpenSocket
    \/ \E r \in {"ok", "err"} : SocketConnect(r)
    \/ \E r \in {"ok", "err"} : WriteAll(r)
    \/ \E r \in ReadResults : Read(r)
    \/ EndDelay

(***************************************************************************)
(* Network layer (specification, section 6): the configuration snapshot    *)
(* is absent until assignment and may be withdrawn again.                  *)
(***************************************************************************)
StackAssign ==
    /\ ~Halted
    /\ ~config_present
    /\ config_present' = TRUE
    /\ ever_present' = TRUE
    /\ UNCHANGED <<spawned, connVars, panic_site, tpc, tlog>>

StackWithdraw ==
    /\ ~Halted
    /\ config_present
    /\ config_present' = FALSE
    /\ UNCHANGED <<spawned, connVars, panic_site, tpc, ever_present, tlog>>

StackStep == StackAssign \/ StackWithdraw

InitConn ==
    /\ cpc = "loop"
    /\ is_started = FALSE
    /\ connect_result = "none"
    /\ wifi_state = "Invalid"
    /\ radio_result = "none"
    /\ event_fired = FALSE
    /\ loss_pending = FALSE
    /\ panic_site = "none"
    /\ log = <<>>
    /\ transitions = <<"NotStarted">>

InitTask ==
    /\ tpc = "poll"
    /\ config_present = FALSE
    /\ ever_present = FALSE
    /\ tlog = <<>>

(* The program as main builds it. *)
InitMain == spawned = {} /\ InitConn /\ InitTask
NextMain == ExecutorRun \/ ConnectionStep \/ RadioStep
SpecMain == InitMain /\ [][NextMain]_vars

(* The timer of line 156 fires, the executor polls a runnable task, and    *)
(* the radio layer resolves every start() and connect() it was handed.     *)
FairSpecMain ==
    /\ SpecMain
    /\ WF_vars(ExecutorRun)
    /\ WF_vars(ConnectionStep)
    /\ WF_vars(\E r \in {"ok", "err"} : RadioResolve(r))

(* The client loop on the executor, as the spawn of line 115 would run it. *)
InitClient == spawned = {"task"} /\ InitConn /\ InitTask
NextClient == TaskStep \/ StackStep
SpecTask == InitClient /\ [][NextClient]_vars

(* Every timer fires and every socket operation completes (the socket has  *)
(* the 10 s timeout of line 212); the executor polls the runnable task.    *)
FairSpecTask == SpecTask /\ WF_vars(TaskStep)


(* Both tasks on the executor, as the spawns of lines 115 and 118 would    *)
(* run them together. The records are not kept here: they start full.      *)
Untracked(n) == [i \in 1..n |-> "untracked"]

InitBoth ==
    /\ spawned = {"connection", "task"}
    /\ cpc = "loop"
    /\ is_started = FALSE
    /\ connect_result = "none"
    /\ wifi_state = "Invalid"
    /\ radio_result = "none"
    /\ event_fired = FALSE
    /\ loss_pending = FALSE
    /\ panic_site = "none"
    /\ log = Untracked(MaxLog)
    /\ transitions = Untracked(MaxTrans)
    /\ tpc = "poll"
    /\ config_present = FALSE
    /\ ever_present = FALSE
    /\ tlog = Untracked(MaxTLog)

NextBoth == ConnectionStep \/ RadioStep \/ TaskStep \/ StackStep
SpecBoth == InitBoth /\ [][NextBoth]_vars

(***************************************************************************)
(* Reading the records.                                                    *)
(***************************************************************************)
Count(l, e) == Cardinality({i \in DOMAIN l : l[i] = e})
Last(l) == l[Len(l)]
IsPrefix(a, b) == Len(a) <= Len(b) /\ \A i \in DOMAIN a : a[i] = b[i]
LogComplete == Len(log) < MaxLog
TLogComplete == Len(tlog) < MaxTLog

(* number of entries e strictly between positions i and j of l *)
Between(l, i, j, e) == Cardinality({k \in DOMAIN l : i < k /\ k < j /\ l[k] = e})

(* j is the first position after i that holds an entry of S *)
FirstAfter(l, i, j, S) ==
    /\ j \in DOMAIN l /\ i < j /\ l[j] \in S
    /\ \A k \in DOMAIN l : (i < k /\ k < j) => l[k] \notin S

(* the results the radio layer gave and the losses of association, in order *)
IsOutcome(e) == e \in {"start_ok", "start_err", "connect_ok", "connect_err", "disconnected"}
Outcomes == SelectSeq(log, IsOutcome)

(***************************************************************************)
(* C1: device.start() is invoked exactly once in a run of the Supervisor:  *)
(* never a second time, whatever number of connect attempts fail and       *)
(* whatever disassociations occur, always before the first connect         *)
(* attempt, and every run does come to invoke it.                          *)
(***************************************************************************)
C1_StartAtMostOnce ==
    /\ Count(log, "start") <= 1
    /\ \A i \in DOMAIN log : log[i] = "connect" =>
          \E j \in DOMAIN log : j < i /\ log[j] = "start"
    /\ is_started => Count(log, "start") = 1

C1_StartExactlyOnce ==
    /\ []C1_StartAtMostOnce
    /\ <>(Count(log, "start") = 1)

C1_Witness ==
    /\ Count(log, "start") = 1
    /\ Count(log, "connect_err") >= 2
    /\ Count(log, "disconnected") >= 1
    /\ Count(log, "connect") >= 4

(***************************************************************************)
(* C2: after every loss of association the Supervisor issues a new connect *)
(* attempt, with at most one retry delay between the loss and the attempt, *)
(* never a second start, and it is never left suspended on the event while *)
(* the radio is not associated.                                            *)
(***************************************************************************)
C2_AtMostOneDelay ==
    \A i \in DOMAIN log : \A j \in DOMAIN log :
        (log[i] = "disconnected" /\ FirstAfter(log, i, j, {"connect"}))
            => Between(log, i, j, "delay") <= 1

C2_NotStuckWaiting ==
    (cpc = "wait_event" /\ wifi_state # "StaConnected") => event_fired

C2_Safety ==
    /\ C2_AtMostOneDelay
    /\ Count(log, "start") <= 1
    /\ C2_NotStuckWaiting

C2_ReconnectsAfterEveryLoss ==
    /\ []C2_Safety
    /\ loss_pending ~> ~loss_pending

(***************************************************************************)
(* C3: if every connect attempt fails, the Supervisor never is Associated  *)
(* and never suspends on the disassociation event, it keeps issuing        *)
(* connect attempts, and between two consecutive attempts it waits the     *)
(* retry delay exactly once.                                               *)
(***************************************************************************)
C3_OneDelayBetweenAttempts ==
    \A i \in DOMAIN log : \A j \in DOMAIN log :
        (log[i] = "connect" /\ FirstAfter(log, i, j, {"connect"}))
            => Between(log, i, j, "delay") = 1

C3_Safety ==
    /\ ConnectionState # "Associated"
    /\ cpc # "wait_event"
    /\ Count(log, "wait") = 0
    /\ C3_OneDelayBetweenAttempts

C3_KeepsRetrying ==
    ([](connect_result # "ok")) =>
        ([]C3_Safety /\ ((cpc = "delay") ~> (cpc = "connect")))

(***************************************************************************)
(* C4: start succeeds, connect fails twice and then succeeds, association  *)
(* is lost once, connect succeeds again: ConnectionState goes through      *)
(* NotStarted, Started, Associating, Started, Associating, Started,        *)
(* Associating, Associated, Started, Associating, Associated, and start    *)
(* is invoked once.                                                        *)
(***************************************************************************)
Scenario ==
    <<"start_ok", "connect_err", "connect_err", "connect_ok", "disconnected", "connect_ok">>

Expected ==
    <<"NotStarted", "Started", "Associating", "Started", "Associating", "Started",
      "Associating", "Associated", "Started", "Associating", "Associated">>

(* the same scenario with the loss delivered after the radio resolved the   *)
(* third connect and before the Supervisor was polled with its Ok          *)
ScenarioLossInFlight ==
    <<"start_ok", "connect_err", "connect_err", "disconnected", "connect_ok", "connect_ok">>

Scenarios == {Scenario, ScenarioLossInFlight}

C4_ScenarioTransitions ==
    \A sc \in Scenarios :
        (LogComplete /\ IsPrefix(Outcomes, sc)) =>
            /\ IsPrefix(transitions, Expected)
            /\ Count(log, "start") <= 1
            /\ Outcomes = sc => (transitions = Expected /\ Count(log, "start") = 1)

C4_Witness ==
    /\ LogComplete
    /\ Outcomes = Scenario
    /\ transitions = Expected
    /\ cpc = "wait_event"

(***************************************************************************)
(* C5: the client loop opens no socket and attempts no socket connect      *)
(* before stack.config() was present; while it is absent the loop stays in *)
(* the readiness poll, one poll delay after each poll that found nothing.  *)
(***************************************************************************)
C5_InPollPhase == tpc \in {"poll", "poll_delay"}

C5_NothingBeforeConfig ==
    ~ever_present => (C5_InPollPhase /\ tlog = <<>>)

C5_ReadinessFirst ==
    /\ []C5_NothingBeforeConfig
    /\ [][(tpc = "poll" /\ ~config_present) => tpc' \in {"poll", "poll_delay"}]_vars
    /\ [][tpc = "poll_delay" => tpc' \in {"poll_delay", "poll"}]_vars
    /\ [][(C5_InPollPhase /\ ~C5_InPollPhase') => (config_present /\ tpc = "poll")]_vars

C5_Witness ==
    /\ ever_present
    /\ tpc = "connect"
    /\ Count(tlog, "open") = 1

(***************************************************************************)
(* C6: in a cycle whose socket connect fails no write and no read is       *)
(* issued: the next transport operation after a failed connect is the      *)
(* connect of the following cycle, on a socket opened after the failure.   *)
(***************************************************************************)
ConnectEntries == {"connect_ok", "connect_err"}
TransportEntries ==
    ConnectEntries \cup {"write_ok", "write_err"} \cup {"read_" \o r : r \in ReadResults}

C6_NoExchangeAfterFailedConnect ==
    /\ \A i \in DOMAIN tlog : \A j \in DOMAIN tlog :
          (tlog[i] = "connect_err" /\ FirstAfter(tlog, i, j, TransportEntries))
              => (tlog[j] \in ConnectEntries /\ Between(tlog, i, j, "open") = 1)
    /\ (TLogComplete /\ tlog # <<>> /\ Last(tlog) = "connect_err") => tpc = "pace"

C6_Witness ==
    \E i \in DOMAIN tlog : \E j \in DOMAIN tlog :
        tlog[i] = "connect_err" /\ FirstAfter(tlog, i, j, TransportEntries)

(***************************************************************************)
(* C7: after a read of Ok(0) nothing more is written to or read from that  *)
(* connection, the client loop does not terminate, and after the pacing    *)
(* delay a new cycle opens a new socket and attempts a connect.            *)
(***************************************************************************)
C7_JustReadEof == tlog # <<>> /\ Last(tlog) = "read_eof"

C7_EofEndsCycle ==
    /\ \A i \in DOMAIN tlog : \A j \in DOMAIN tlog :
          (tlog[i] = "read_eof" /\ FirstAfter(tlog, i, j, TransportEntries))
              => /\ tlog[j] \in ConnectEntries
                 /\ Between(tlog, i, j, "open") = 1
                 /\ Between(tlog, i, j, "pace_end") + Between(tlog, i, j, "pace") >= 1
    /\ (TLogComplete /\ C7_JustReadEof) => (tpc = "end_delay" /\ panic_site = "none")

C7_EofThenNewCycle ==
    /\ []C7_EofEndsCycle
    /\ (C7_JustReadEof /\ tpc = "end_delay") ~> (tpc = "connect")

C7_Witness ==
    \E i \in DOMAIN tlog : \E j \in DOMAIN tlog :
        tlog[i] = "read_eof" /\ FirstAfter(tlog, i, j, TransportEntries)

C9_OnlyStartFailureTerminates ==
    /\ panic_site \in {"none", "start"}
    /\ cpc = "panicked" => panic_site = "start"
    /\ tpc # "panicked"

(***************************************************************************)
(* C10: main schedules both the Supervisor and the client loop on the      *)
(* executor.                                                               *)
(***************************************************************************)
C10_BothTasksSpawned ==
    spawned # {} => {"connection", "task"} \subseteq spawned


(***************************************************************************)
(* C11: a failed start is propagated and terminates the Supervisor: start  *)
(* is not retried and no credentials application and no connect attempt    *)
(* is issued afterwards.                                                   *)
(***************************************************************************)
C11_StartFailed == Count(log, "start_err") >= 1

C11_AfterFailedStart ==
    C11_StartFailed =>
        /\ cpc = "panicked"
        /\ panic_site = "start"
        /\ ~is_started
        /\ Last(log) = "start_err"
        /\ Count(log, "start") = 1
        /\ Count(log, "set_configuration") = 0
        /\ Count(log, "connect") = 0

C11_StartFailureTerminates ==
    /\ []C11_AfterFailedStart
    /\ [][(cpc = "start" /\ radio_result = "err" /\ cpc' # cpc) => cpc' = "panicked"]_vars
    /\ [][C11_StartFailed => UNCHANGED <<supervisorVars, log>>]_vars

C11_Witness == C11_StartFailed /\ cpc = "panicked"


(***************************************************************************)
(* C12: the Supervisor suspends on the disassociation event exactly when   *)
(* the status query returns StaConnected; while suspended it issues no     *)
(* start, no credentials application and no connect attempt until a        *)
(* disassociation event was delivered; on any other state it does not wait *)
(* on the event in that pass.                                              *)
(***************************************************************************)
C12_WaitThenDisconnected ==
    /\ \A i \in DOMAIN log :
          (log[i] = "wait" /\ i < Len(log)) => log[i + 1] = "disconnected"
    /\ (cpc = "wait_event" /\ LogComplete) =>
          \/ Last(log) = "wait"
          \/ (Last(log) = "disconnected" /\ event_fired)

C12_WaitsExactlyWhenAssociated ==
    /\ []C12_WaitThenDisconnected
    /\ [][(cpc = "loop" /\ cpc' # cpc) =>
             /\ cpc' \in {"wait_event", "check_started"}
             /\ (cpc' = "wait_event") <=> (wifi_state = "StaConnected")]_vars
    /\ [][(cpc' = "wait_event" /\ cpc # cpc') => cpc = "loop"]_vars
    /\ [][(cpc = "wait_event" /\ cpc' # cpc) =>
             (event_fired /\ wifi_state # "StaConnected" /\ cpc' = "check_started")]_vars

C12_Witness ==
    \E i \in DOMAIN log : \E j \in DOMAIN log :
        /\ log[i] = "wait"
        /\ FirstAfter(log, i, j, {"connect"})
        /\ Count(log, "connect_err") >= 1


(***************************************************************************)
(* C13: on every pass that reaches a connect attempt the credentials are   *)
(* applied on that pass, after the start check and before the connect:     *)
(* no connect attempt without a credentials application since the          *)
(* previous attempt.                                                       *)
(***************************************************************************)
C13_CredentialsBeforeConnect ==
    /\ \A i \in DOMAIN log :
          log[i] = "connect" => (i > 1 /\ log[i - 1] = "set_configuration")
    /\ \A i \in DOMAIN log : \A j \in DOMAIN log :
          (log[i] = "connect" /\ FirstAfter(log, i, j, {"connect"}))
              => Between(log, i, j, "set_configuration") = 1

C13_CredentialsEveryPass ==
    /\ []C13_CredentialsBeforeConnect
    /\ [][(cpc' = "connect" /\ cpc # cpc') => cpc = "set_configuration"]_vars
    /\ [][(cpc' = "set_configuration" /\ cpc # cpc')
             => cpc \in {"check_started", "start"}]_vars

C13_Witness ==
    /\ Count(log, "connect") >= 3
    /\ Count(log, "set_configuration") >= 3
    /\ Count(log, "disconnected") >= 1

(***************************************************************************)
(* C14: no credentials application and no connect attempt before start     *)
(* has completed successfully: ConnectionState never goes from NotStarted  *)
(* to Associating without passing through Started.                         *)
(***************************************************************************)
C14_StartedBeforeConnect ==
    /\ cpc \in {"set_configuration", "connect"} => is_started
    /\ \A i \in DOMAIN log :
          log[i] \in {"set_configuration", "set_configuration_err", "connect"}
              => \E j \in DOMAIN log : j < i /\ log[j] = "start_ok"
    /\ \A i \in DOMAIN transitions :
          transitions[i] = "NotStarted" =>
              (i = 1 /\ (Len(transitions) >= 2 => transitions[2] = "Started"))

C14_Witness ==
    /\ is_started
    /\ cpc = "connect"
    /\ transitions = <<"NotStarted", "Started", "Associating">>


(***************************************************************************)
(* C15: once the client loop is ready, a failed socket connect, a failed   *)
(* write and a failed read get the same recovery: the cycle is abandoned   *)
(* and a new cycle with a new connect follows a pacing delay; whatever the *)
(* transport outcomes, connect attempts are issued infinitely often, with  *)
(* at least one pacing delay between two consecutive attempts.             *)
(***************************************************************************)
FailureEntries == {"connect_err", "write_err", "read_err"}
PaceEntries == {"pace", "pace_end"}

C15_PacedBetween(i, j) ==
    Between(tlog, i, j, "pace") + Between(tlog, i, j, "pace_end") >= 1

C15_SameRecovery ==
    /\ \A i \in DOMAIN tlog : \A j \in DOMAIN tlog :
          (tlog[i] \in FailureEntries /\ FirstAfter(tlog, i, j, TransportEntries))
              => (tlog[j] \in ConnectEntries /\ C15_PacedBetween(i, j))
    /\ \A i \in DOMAIN tlog : \A j \in DOMAIN tlog :
          (tlog[i] \in ConnectEntries /\ FirstAfter(tlog, i, j, ConnectEntries))
              => C15_PacedBetween(i, j)
    /\ (TLogComplete /\ tlog # <<>> /\ Last(tlog) \in FailureEntries)
          => tpc \in {"pace", "end_delay"}

C15_Ready == tpc \notin {"poll", "poll_delay"}

(* The claim, with a panic counted as an excuse: a ready client loop that  *)
(* has not panicked always comes to another connect attempt.               *)
C15_RetriesForever ==
    /\ []C15_SameRecovery
    /\ [](C15_Ready => <>(tpc = "connect" \/ Halted))

(* What holds: every cycle that was abandoned (failed connect, failed      *)
(* write, failed read, or end of stream) is followed by a connect attempt  *)
(* after a pacing delay; a connection whose reads keep returning data is   *)
(* kept and no further connect is issued.                                  *)
C15_AbandonedCycleRetried ==
    /\ []C15_SameRecovery
    /\ (tpc \in {"pace", "end_delay"}) ~> (tpc = "connect")

C15_Witness ==
    \E i \in DOMAIN tlog : \E j \in DOMAIN tlog :
        /\ tlog[i] \in {"write_err", "read_err"}
        /\ FirstAfter(tlog, i, j, TransportEntries)


(***************************************************************************)
(* C16: within a cycle every read is immediately preceded by a successful  *)
(* write of the request on the same connection; a failed write ends the    *)
(* cycle with no read; after every positive read the inner loop repeats,   *)
(* writing the request again before the next read.                         *)
(***************************************************************************)
ReadEntries == {"read_" \o r : r \in ReadResults}
PositiveReads == {"read_text", "read_bad"}

C16_Ordering ==
    /\ \A i \in DOMAIN tlog :
          tlog[i] \in ReadEntries => (i > 1 /\ tlog[i - 1] = "write_ok")
    /\ \A i \in DOMAIN tlog : \A j \in DOMAIN tlog :
          (tlog[i] = "write_err" /\ FirstAfter(tlog, i, j, TransportEntries))
              => (tlog[j] \in ConnectEntries /\ Between(tlog, i, j, "open") = 1)
    /\ \A i \in DOMAIN tlog :
          (tlog[i] \in PositiveReads /\ i < Len(tlog))
              => tlog[i + 1] \in {"write_ok", "write_err"}
    /\ (TLogComplete /\ tlog # <<>> /\ Last(tlog) = "write_err") => tpc = "end_delay"
    /\ (TLogComplete /\ tlog # <<>> /\ Last(tlog) = "write_ok") => tpc = "read"

C16_WriteBeforeEveryRead ==
    /\ C16_Ordering
    /\ (TLogComplete /\ tlog # <<>> /\ Last(tlog) \in PositiveReads) => tpc = "write"


(***************************************************************************)
(* C17: every cycle opens a fresh socket, sets the idle timeout on it      *)
(* before the connect attempt, and issues at most one connect attempt on   *)
(* it; a socket whose connect failed gets no second connect attempt.       *)
(***************************************************************************)
C17_FreshSocketPerConnect ==
    /\ \A i \in DOMAIN tlog :
          tlog[i] \in ConnectEntries =>
              (i > 2 /\ tlog[i - 1] = "set_timeout" /\ tlog[i - 2] = "open")
    /\ \A i \in DOMAIN tlog : \A j \in DOMAIN tlog :
          (tlog[i] \in ConnectEntries /\ FirstAfter(tlog, i, j, ConnectEntries))
              => Between(tlog, i, j, "open") = 1
    /\ \A i \in DOMAIN tlog :
          (tlog[i] = "pace" /\ i < Len(tlog)) => tlog[i + 1] = "open"
    /\ \A i \in DOMAIN tlog :
          (tlog[i] = "open" /\ i < Len(tlog)) => tlog[i + 1] = "set_timeout"
    /\ tpc = "connect" =>
          (TLogComplete => (tlog # <<>> /\ Last(tlog) = "set_timeout"))

C17_Witness ==
    /\ Count(tlog, "open") = 3
    /\ Count(tlog, "connect_err") = 2
    /\ tpc = "connect"


(***************************************************************************)
(* C18: no step of the client loop changes the Supervisor's state: it      *)
(* leaves is_started and the Supervisor's connection state unchanged,      *)
(* issues no radio-layer operation, and only reads the network layer's     *)
(* configuration snapshot.                                                 *)
(***************************************************************************)
C18_ClientLoopFrame ==
    [][(tpc' # tpc \/ tlog' # tlog) =>
          /\ UNCHANGED <<is_started, cpc, connect_result>>
          /\ ConnectionState' = ConnectionState
          /\ UNCHANGED <<wifi_state, radio_result, event_fired, loss_pending, log>>
          /\ UNCHANGED <<config_present, ever_present>>]_vars

C18_Witness ==
    /\ tpc = "read"
    /\ is_started
    /\ cpc = "wait_event"
    /\ ~config_present


(***************************************************************************)
(* C19: is_started is true exactly when a start has completed              *)
(* successfully: false at first, set by the Supervisor right after the     *)
(* successful start, never reset (not on a disassociation, not on a failed *)
(* connect), and not taken from the state the radio layer reports.         *)
(***************************************************************************)
C19_FlagIffStarted ==
    /\ is_started <=> (Count(log, "start_ok") = 1)
    /\ Count(log, "start_ok") <= 1
    /\ Len(log) = 0 => ~is_started

C19_StartedFlag ==
    /\ []C19_FlagIffStarted
    /\ [][is_started => is_started']_vars
    /\ [][(~is_started /\ is_started') => (cpc = "start" /\ radio_result = "ok")]_vars
    /\ [][wifi_state' # wifi_state => is_started' = is_started]_vars

C19_Witness ==
    /\ is_started
    /\ wifi_state = "StaDisconnected"
    /\ Count(log, "disconnected") >= 1
    /\ Count(log, "connect_err") >= 1


(***************************************************************************)
(* C20: readiness is checked once.  After the Client Loop has seen a       *)
(* present configuration it never queries the configuration again and      *)
(* never returns to the readiness-poll phase, and it keeps running cycles  *)
(* even when the address has become absent: in every state after           *)
(* readiness the Client Loop has a next step to take.                      *)
(***************************************************************************)
C20_PastReadiness == Count(tlog, "got_config") >= 1 \/ tpc \notin {"poll", "poll_delay", "panicked"}

(* the part about the poll phase: one successful query, nothing polled     *)
(* after it, whatever the network layer reports later                      *)
C20_ReadinessOnce ==
    /\ Count(tlog, "got_config") <= 1
    /\ C20_PastReadiness => tpc \notin {"poll", "poll_delay"}
    /\ (tlog # <<>> /\ TLogComplete) => tlog[1] = "got_config"

C20_KeepsCyclingAfterReadiness ==
    /\ C20_ReadinessOnce
    /\ C20_PastReadiness => ENABLED TaskStep

====
